---- MODULE Spec2Model ----
(***************************************************************************)
(* License server for Drive Uploader Pro (src/main.py).                    *)
(*                                                                         *)
(* The worksheet is a sequence of rows of four cells (key, activated_at,   *)
(* expires_at, run_count).  Text is modelled by what the code does with    *)
(* it: machine keys and run-count cells are sequences of characters (so    *)
(* that str.strip, int() and str() are computed), timestamp cells are the  *)
(* ISO text described by its wall-clock seconds and its UTC offset.        *)
(* Instants are counted in ticks, SubSec ticks to the second, so that the  *)
(* truncations of isoformat(timespec="seconds") and int(timestamp()) are   *)
(* computed too.                                                           *)
(***************************************************************************)
EXTENDS Integers, Sequences, FiniteSets, TLC

VARIABLES
    sheet,      \* the worksheet: Seq of rows [key, activated_at, expires_at, run_count]
    clock,      \* the last instant (ticks, UTC) any request read from the system clock
    cfg,        \* configuration read once at start: [api_key, has_private_key]
    last,       \* the request that completed last: inputs, outcome, store accesses
    inflight    \* workers: per worker thread the request it serves and how far it got;
                \* accepted: the number of requests the workers have taken

vars == <<sheet, clock, cfg, last, inflight>>

-----------------------------------------------------------------------------
(* Bounds of the model                                                     *)

MaxRows  == 2      \* requests that would grow the sheet beyond this are not issued
OneRecord == 1     \* the smaller sheet of SpecOneRecord
MaxRequests == 2   \* requests the workers accept in all while requests interleave
MaxTick == 1       \* the clock is read at ticks 0..MaxTick while requests interleave
MaxRun   == 2      \* increment-run is not issued on a count that has reached this
MaxClock == 2      \* the clock is read at ticks 0..MaxClock
SubSec   == 2      \* ticks per second (the clock is finer than a second)

-----------------------------------------------------------------------------
(* Configuration                                                           *)

TZ_OFFSET_HOURS == 7
TOKEN_TTL_DAYS  == 14
DEFAULT_DAYS    == 7
SecPerHour      == 3600
SecPerDay       == 86400

COL_KEY       == 1
COL_ACTIVATED == 2
COL_EXPIRES   == 3
COL_RUNCOUNT  == 4

\* Optional[int] None of _find_row_by_key (rows are numbered from 1)
NoRow == 0

-----------------------------------------------------------------------------
(* Text                                                                    *)

Space  == " "
Digits == <<"0", "1", "2", "3", "4", "5", "6", "7", "8", "9">>

IsDigit(c) == \E i \in 1..10 : Digits[i] = c
DigitVal(c) == (CHOOSE i \in 1..10 : Digits[i] = c) - 1

RECURSIVE LStrip(_)
LStrip(s) == IF s # <<>> /\ Head(s) = Space THEN LStrip(Tail(s)) ELSE s

RECURSIVE RStrip(_)
RStrip(s) ==
    IF s # <<>> /\ s[Len(s)] = Space THEN RStrip(SubSeq(s, 1, Len(s) - 1)) ELSE s

\* str.strip()
Strip(s) == RStrip(LStrip(s))

RECURSIVE DigitsValue(_)
DigitsValue(s) ==
    IF s = <<>> THEN 0
    ELSE 10 * DigitsValue(SubSeq(s, 1, Len(s) - 1)) + DigitVal(s[Len(s)])

AllDigits(s) == s # <<>> /\ \A i \in 1..Len(s) : IsDigit(s[i])

\* int(text): [ok, v]; ok = FALSE stands for ValueError
PyInt(text) ==
    LET s == Strip(text)
        signed == s # <<>> /\ Head(s) \in {"-", "+"}
        body == IF signed THEN Tail(s) ELSE s
    IN  IF AllDigits(body)
        THEN [ok |-> TRUE,
              v |-> IF signed /\ Head(s) = "-" THEN 0 - DigitsValue(body)
                    ELSE DigitsValue(body)]
        ELSE [ok |-> FALSE, v |-> 0]

RECURSIVE NatStr(_)
NatStr(n) ==
    IF n < 10 THEN <<Digits[n + 1]>>
    ELSE NatStr(n \div 10) \o <<Digits[(n % 10) + 1]>>

\* str(run_count)
PyStr(n) == IF n < 0 THEN <<"-">> \o NatStr(0 - n) ELSE NatStr(n)

\* ParseRunCount with the except branch keeping a sentinel instead of 0
ParseRunCount_NoZeroDefault(cell) ==
    LET run_val == IF cell = <<>> THEN <<"0">> ELSE cell
        txt == IF Strip(run_val) = <<>> THEN <<"0">> ELSE Strip(run_val)
        r == PyInt(txt)
    IN  IF r.ok THEN r.v ELSE 0 - 1

\* run_val = cell or "0"; try: int(str(run_val).strip() or "0") except: 0
ParseRunCount(cell) ==
    LET run_val == IF cell = <<>> THEN <<"0">> ELSE cell
        txt == IF Strip(run_val) = <<>> THEN <<"0">> ELSE Strip(run_val)
        r == PyInt(txt)
    IN  IF r.ok THEN r.v ELSE 0

-----------------------------------------------------------------------------
(* Timestamps                                                              *)

\* The text of a timestamp cell.
Blank == [kind |-> "blank", wall |-> 0, off |-> 0]         \* ""
IsoText(wall, off) == [kind |-> "iso", wall |-> wall, off |-> off]  \* ...+HH:00
NaiveText(wall) == [kind |-> "naive", wall |-> wall, off |-> 0]     \* no offset
JunkText == [kind |-> "junk", wall |-> 0, off |-> 0]       \* not a timestamp

\* An aware datetime: instant in ticks (UTC) and the offset of its zone in hours.
\* tz_now_gmt() / tz_now_gmt7() applied to a clock reading t
tz_now_gmt(t)  == [inst |-> t, off |-> 0]
tz_now_gmt7(t) == [inst |-> t, off |-> TZ_OFFSET_HOURS]

\* dt + timedelta(days = d)
PlusDays(dt, d) == [dt EXCEPT !.inst = @ + d * SecPerDay * SubSec]

\* dt.isoformat(timespec = "seconds"): the sub-second part is dropped
fmt_iso(dt) == IsoText((dt.inst \div SubSec) + dt.off * SecPerHour, dt.off)

\* parse_iso_maybe: <<>> is None, <<dt>> the datetime converted to UTC
parse_iso_maybe(iso) ==
    CASE iso.kind = "iso"   -> <<[inst |-> (iso.wall - iso.off * SecPerHour) * SubSec,
                                  off |-> 0]>>
      [] iso.kind = "naive" -> <<[inst |-> iso.wall * SubSec, off |-> 0]>>
      [] OTHER              -> <<>>

\* int(dt.timestamp())
IntTimestamp(dt) == dt.inst \div SubSec

-----------------------------------------------------------------------------
(* Google Sheets operations                                                *)

Row(k, a, e, rc) == [key |-> k, activated_at |-> a, expires_at |-> e, run_count |-> rc]

RECURSIVE DropTrailingEmpty(_)
DropTrailingEmpty(s) ==
    IF s # <<>> /\ s[Len(s)] = <<>>
    THEN DropTrailingEmpty(SubSeq(s, 1, Len(s) - 1)) ELSE s

\* ws.col_values(COL_KEY): the key column down to its last non-empty cell (the
\* Sheets API omits the empty cells that trail a column)
ColKeys(ws) == DropTrailingEmpty([i \in 1..Len(ws) |-> ws[i].key])

\* _find_row_by_key
FindRowByKey(ws, machine_key) ==
    LET keys == ColKeys(ws)
        hits == {i \in 1..Len(keys) : Strip(keys[i]) = machine_key}
    IN  IF hits = {} THEN NoRow
        ELSE CHOOSE i \in hits : \A j \in hits : i <= j

\* _ensure_row updating the run-count cell alone
EnsureRow_CountOnly(ws, row, machine_key, activated_at, expires_at, run_count) ==
    IF row <= Len(ws) THEN [ws EXCEPT ![row].run_count = PyStr(run_count)]
    ELSE Append(ws, Row(machine_key, Blank, Blank, PyStr(run_count)))

\* _ensure_row: ws.update("A{row}:D{row}", [[key, activated, expires, str(run_count)]])
EnsureRow(ws, row, machine_key, activated_at, expires_at, run_count) ==
    LET r == Row(machine_key, activated_at, expires_at, PyStr(run_count))
    IN  IF row <= Len(ws) THEN [ws EXCEPT ![row] = r] ELSE Append(ws, r)

\* ws.cell(row, col).value or ""
CellValue(ws, row, col) ==
    CASE col = COL_KEY       -> ws[row].key
      [] col = COL_ACTIVATED -> ws[row].activated_at
      [] col = COL_EXPIRES   -> ws[row].expires_at
      [] col = COL_RUNCOUNT  -> ws[row].run_count

-----------------------------------------------------------------------------
(* Security                                                                *)

\* Optional[str] header: <<>> is None, <<s>> the header text
NoHeader == <<>>

\* verify_api_key comparing only a header that is present
verify_api_key_PresentOnly(api_key, x_api_key) ==
    IF api_key # ""
    THEN x_api_key = NoHeader \/ x_api_key[1] = api_key
    ELSE TRUE

\* verify_api_key: TRUE when the request may proceed, FALSE for HTTPException(401)
verify_api_key(api_key, x_api_key) ==
    IF api_key # ""
    THEN ~(x_api_key = NoHeader \/ x_api_key[1] = "" \/ x_api_key[1] # api_key)
    ELSE TRUE

-----------------------------------------------------------------------------
(* Token                                                                   *)

NoToken == [machine_key |-> <<>>, rc |-> 0, iat |-> 0, nbf |-> 0, exp |-> 0]

\* min(a, b) replaced by its first argument: the token expiry is not clamped
MinDt_Unclamped(a, b) == a

\* min(a, b) of two datetimes
MinDt(a, b) == IF b.inst < a.inst THEN b ELSE a

\* load_private_key: TRUE when key material is configured, FALSE for HTTPException(500)
load_private_key(has_private_key) == has_private_key

\* build_offline_token with the clock read at tick t: [ok, payload]
build_offline_token(machine_key, run_count, db_expires_at_iso, t, has_private_key) ==
    LET now == tz_now_gmt(t)
        parsed == parse_iso_maybe(db_expires_at_iso)
        db_exp_dt == IF parsed # <<>> THEN parsed[1] ELSE PlusDays(now, TOKEN_TTL_DAYS)
        ttl_exp_dt == PlusDays(now, TOKEN_TTL_DAYS)
        exp_dt == MinDt(db_exp_dt, ttl_exp_dt)
        payload == [machine_key |-> machine_key,
                    rc |-> run_count,
                    iat |-> IntTimestamp(now),
                    nbf |-> IntTimestamp(now),
                    exp |-> IntTimestamp(exp_dt)]
    IN  IF load_private_key(has_private_key)
        THEN [ok |-> TRUE, payload |-> payload]
        ELSE [ok |-> FALSE, payload |-> NoToken]

-----------------------------------------------------------------------------
(* Routes: each handler as a function of the worksheet, the request and    *)
(* the clock readings it makes (t1 <= t2 <= t3, in the order it reads).    *)

\* what a handler did: the sheet it leaves, its answer, its store accesses and
\* the number of times it called tz_now_gmt7() (ticks)
Outcome(ws, status, created, a, e, rc, row, reads, writes, ticks, token) ==
    [ws |-> ws, status |-> status, created |-> created, activated_at |-> a,
     expires_at |-> e, run_count |-> rc, row |-> row, reads |-> reads,
     writes |-> writes, ticks |-> ticks, token |-> token]

\* Number of the two timestamp cells that are empty: each costs one clock read
EmptyOf(a, e) == (IF a = Blank THEN 1 ELSE 0) + (IF e = Blank THEN 1 ELSE 0)

\* license_get_or_create
license_get_or_create(ws, machine_key, t1, t2) ==
    LET row == FindRowByKey(ws, machine_key) IN
    IF row = NoRow
    THEN LET new == Len(ColKeys(ws)) + 1
             activated_at == fmt_iso(tz_now_gmt7(t1))
             expires_at == fmt_iso(PlusDays(tz_now_gmt7(t2), DEFAULT_DAYS))
         IN  Outcome(EnsureRow(ws, new, machine_key, activated_at, expires_at, 0),
                     200, TRUE, activated_at, expires_at, 0, new, 2, 1, 2, NoToken)
    ELSE LET stored_a == CellValue(ws, row, COL_ACTIVATED)
             stored_e == CellValue(ws, row, COL_EXPIRES)
             run_count == ParseRunCount(CellValue(ws, row, COL_RUNCOUNT))
             \* the clock is read once per empty field, in this order
             activated_at == IF stored_a = Blank THEN fmt_iso(tz_now_gmt7(t1))
                             ELSE stored_a
             te == IF stored_a = Blank THEN t2 ELSE t1
             expires_at == IF stored_e = Blank
                           THEN fmt_iso(PlusDays(tz_now_gmt7(te), DEFAULT_DAYS))
                           ELSE stored_e
             changed == stored_a = Blank \/ stored_e = Blank
         IN  Outcome(IF changed
                     THEN EnsureRow(ws, row, machine_key, activated_at, expires_at,
                                    run_count)
                     ELSE ws,
                     200, FALSE, activated_at, expires_at, run_count, row, 4,
                     IF changed THEN 1 ELSE 0, EmptyOf(stored_a, stored_e), NoToken)

\* license_increment_run
license_increment_run(ws, machine_key, t1, t2) ==
    LET row == FindRowByKey(ws, machine_key) IN
    IF row = NoRow
    THEN LET new == Len(ColKeys(ws)) + 1
             activated_at == fmt_iso(tz_now_gmt7(t1))
             expires_at == fmt_iso(PlusDays(tz_now_gmt7(t2), DEFAULT_DAYS))
             ws1 == EnsureRow(ws, new, machine_key, activated_at, expires_at, 0)
         IN  Outcome(EnsureRow(ws1, new, machine_key, activated_at, expires_at, 0 + 1),
                     200, TRUE, activated_at, expires_at, 0 + 1, new, 2, 2, 2, NoToken)
    ELSE LET stored_a == CellValue(ws, row, COL_ACTIVATED)
             stored_e == CellValue(ws, row, COL_EXPIRES)
             run_count == ParseRunCount(CellValue(ws, row, COL_RUNCOUNT))
             activated_at == IF stored_a = Blank THEN fmt_iso(tz_now_gmt7(t1))
                             ELSE stored_a
             te == IF stored_a = Blank THEN t2 ELSE t1
             expires_at == IF stored_e = Blank
                           THEN fmt_iso(PlusDays(tz_now_gmt7(te), DEFAULT_DAYS))
                           ELSE stored_e
         IN  Outcome(EnsureRow(ws, row, machine_key, activated_at, expires_at,
                               run_count + 1),
                     200, FALSE, activated_at, expires_at, run_count + 1, row, 4, 1,
                     EmptyOf(stored_a, stored_e), NoToken)

\* license_issue_token giving a new record the token lifetime as its window
license_issue_token_TtlWindow(ws, machine_key, t1, t2, t3, has_private_key) ==
    LET row == FindRowByKey(ws, machine_key) IN
    IF row = NoRow
    THEN LET new == Len(ColKeys(ws)) + 1
             activated_at == fmt_iso(tz_now_gmt7(t1))
             expires_at == fmt_iso(PlusDays(tz_now_gmt7(t2), TOKEN_TTL_DAYS))
             tok == build_offline_token(machine_key, 0, expires_at, t3,
                                        has_private_key)
         IN  Outcome(EnsureRow(ws, new, machine_key, activated_at, expires_at, 0),
                     IF tok.ok THEN 200 ELSE 500, FALSE, activated_at, expires_at, 0,
                     new, 2, 1, 2, tok.payload)
    ELSE LET stored_a == CellValue(ws, row, COL_ACTIVATED)
             stored_e == CellValue(ws, row, COL_EXPIRES)
             run_count == ParseRunCount(CellValue(ws, row, COL_RUNCOUNT))
             activated_at == IF stored_a = Blank THEN fmt_iso(tz_now_gmt7(t1))
                             ELSE stored_a
             te == IF stored_a = Blank THEN t2 ELSE t1
             expires_at == IF stored_e = Blank
                           THEN fmt_iso(PlusDays(tz_now_gmt7(te), DEFAULT_DAYS))
                           ELSE stored_e
             tok == build_offline_token(machine_key, run_count, expires_at, t3,
                                        has_private_key)
         IN  Outcome(ws, IF tok.ok THEN 200 ELSE 500, FALSE, activated_at,
                     expires_at, run_count, row, 4, 0, EmptyOf(stored_a, stored_e),
                     tok.payload)

\* license_issue_token loading the signing key before it touches the sheet
license_issue_token_KeyFirst(ws, machine_key, t1, t2, t3, has_private_key) ==
    LET served ==
            LET row == FindRowByKey(ws, machine_key) IN
            IF row = NoRow
            THEN LET new == Len(ColKeys(ws)) + 1
                     activated_at == fmt_iso(tz_now_gmt7(t1))
                     expires_at == fmt_iso(PlusDays(tz_now_gmt7(t2), DEFAULT_DAYS))
                     tok == build_offline_token(machine_key, 0, expires_at, t3,
                                                has_private_key)
                 IN  Outcome(EnsureRow(ws, new, machine_key, activated_at, expires_at, 0),
                             IF tok.ok THEN 200 ELSE 500, FALSE, activated_at, expires_at, 0,
                             new, 2, 1, 2, tok.payload)
            ELSE LET stored_a == CellValue(ws, row, COL_ACTIVATED)
                     stored_e == CellValue(ws, row, COL_EXPIRES)
                     run_count == ParseRunCount(CellValue(ws, row, COL_RUNCOUNT))
                     activated_at == IF stored_a = Blank THEN fmt_iso(tz_now_gmt7(t1))
                                     ELSE stored_a
                     te == IF stored_a = Blank THEN t2 ELSE t1
                     expires_at == IF stored_e = Blank
                                   THEN fmt_iso(PlusDays(tz_now_gmt7(te), DEFAULT_DAYS))
                                   ELSE stored_e
                     tok == build_offline_token(machine_key, run_count, expires_at, t3,
                                                has_private_key)
                 IN  Outcome(ws, IF tok.ok THEN 200 ELSE 500, FALSE, activated_at,
                             expires_at, run_count, row, 4, 0, EmptyOf(stored_a, stored_e),
                             tok.payload)
    IN  IF load_private_key(has_private_key) THEN served
        ELSE [served EXCEPT !.ws = ws, !.reads = 0, !.writes = 0]

\* license_issue_token
license_issue_token(ws, machine_key, t1, t2, t3, has_private_key) ==
    LET row == FindRowByKey(ws, machine_key) IN
    IF row = NoRow
    THEN LET new == Len(ColKeys(ws)) + 1
             activated_at == fmt_iso(tz_now_gmt7(t1))
             expires_at == fmt_iso(PlusDays(tz_now_gmt7(t2), DEFAULT_DAYS))
             tok == build_offline_token(machine_key, 0, expires_at, t3,
                                        has_private_key)
         IN  Outcome(EnsureRow(ws, new, machine_key, activated_at, expires_at, 0),
                     IF tok.ok THEN 200 ELSE 500, FALSE, activated_at, expires_at, 0,
                     new, 2, 1, 2, tok.payload)
    ELSE LET stored_a == CellValue(ws, row, COL_ACTIVATED)
             stored_e == CellValue(ws, row, COL_EXPIRES)
             run_count == ParseRunCount(CellValue(ws, row, COL_RUNCOUNT))
             activated_at == IF stored_a = Blank THEN fmt_iso(tz_now_gmt7(t1))
                             ELSE stored_a
             te == IF stored_a = Blank THEN t2 ELSE t1
             expires_at == IF stored_e = Blank
                           THEN fmt_iso(PlusDays(tz_now_gmt7(te), DEFAULT_DAYS))
                           ELSE stored_e
             tok == build_offline_token(machine_key, run_count, expires_at, t3,
                                        has_private_key)
         IN  Outcome(ws, IF tok.ok THEN 200 ELSE 500, FALSE, activated_at,
                     expires_at, run_count, row, 4, 0, EmptyOf(stored_a, stored_e),
                     tok.payload)

-----------------------------------------------------------------------------
(* State machine: requests run to completion one after another             *)

ReqKeys == {<<"a">>, <<" ", "a">>, <<>>, <<"b">>}
Headers == {NoHeader, <<"k">>, <<"x">>}
ApiKeys == {"", "k"}

\* Instants the sheet's hand-entered timestamps refer to, in seconds
NearSec == DEFAULT_DAYS * SecPerDay
FarSec  == 20 * SecPerDay

\* Timestamp texts found in hand-edited sheets
ActT0   == IsoText(TZ_OFFSET_HOURS * SecPerHour, TZ_OFFSET_HOURS)
ExpNear == IsoText(NearSec + TZ_OFFSET_HOURS * SecPerHour, TZ_OFFSET_HOURS)
ExpFar  == IsoText(FarSec, 0)
ExpNaive == NaiveText(SecPerDay)

\* Rows a worksheet may hold before the service first touches it: the sheet is
\* edited by hand as well, so cells may be empty, padded or not numbers.
InitRowSet ==
    { Row(<<"a">>,      ActT0, ExpNear,  <<"2">>),
      Row(<<"a", " ">>, ActT0, ExpFar,   <<"0">>),
      Row(<<"a">>,      Blank, ExpNear,  <<"x">>),
      Row(<<"a">>,      ActT0, Blank,    <<>>),
      Row(<<"a">>,      Blank, Blank,    <<" ", "1">>),
      Row(<<"a">>,      ActT0, ExpNaive, <<"1">>),
      Row(<<"a">>,      ActT0, JunkText, <<"x">>),
      Row(<<"a">>,      ActT0, ExpFar,   <<"-", "1">>) }

InitSheets == {<<>>} \cup {<<r>> : r \in InitRowSet}

\* Row i of ws is a record of machine key k: its key cell is k, as written or
\* once trimmed
KeyMatches(cell, k) == cell = k \/ Strip(cell) = k

\* The first record of k in the whole sheet, NoRow when there is none
StoredRowOf(ws, k) ==
    LET hits == {i \in 1..Len(ws) : KeyMatches(ws[i].key, k)}
    IN  IF hits = {} THEN NoRow ELSE CHOOSE i \in hits : \A j \in hits : i <= j

\* ws[row] as the handler's ws.cell reads found it, <<>> when no row matched
FoundRow(ws, machine_key) ==
    IF FindRowByKey(ws, machine_key) = NoRow THEN <<>>
    ELSE <<ws[FindRowByKey(ws, machine_key)]>>

NoRequest ==
    [op |-> "none", key |-> <<>>, hdr |-> NoHeader, status |-> 0, created |-> FALSE,
     activated_at |-> Blank, expires_at |-> Blank, run_count |-> 0, row |-> NoRow,
     reads |-> 0, writes |-> 0, token |-> NoToken, found |-> <<>>, stored |-> NoRow]

Completed(op, key, hdr, out, ws) ==
    [op |-> op, key |-> key, hdr |-> hdr, status |-> out.status,
     created |-> out.created, activated_at |-> out.activated_at,
     expires_at |-> out.expires_at, run_count |-> out.run_count, row |-> out.row,
     reads |-> out.reads, writes |-> out.writes, token |-> out.token,
     found |-> FoundRow(ws, key), stored |-> StoredRowOf(ws, key)]

\* The header as verify_api_key saw it: with no LICENSE_API_KEY configured the
\* dependency returns without looking at the header
Examined(h) == IF cfg.api_key # "" THEN h ELSE NoHeader

\* Depends(verify_api_key) raised: the handler body never ran
Rejected(op, hdr) == [NoRequest EXCEPT !.op = op, !.hdr = hdr, !.status = 401]

\* Worker threads of the server (FastAPI runs each def handler in a thread)
Workers == {"w1", "w2"}

\* A worker that serves no request; otherwise the locals of the handler it runs
Idle ==
    [pc |-> "idle", op |-> "none", key |-> <<>>, row |-> NoRow, created |-> FALSE,
     activated_at |-> Blank, expires_at |-> Blank, run_count |-> 0]

\* No request in flight, none accepted yet
AllIdle == [workers |-> [w \in Workers |-> Idle], accepted |-> 0]

Init ==
    /\ sheet \in InitSheets
    /\ clock = 0
    /\ cfg \in [api_key : ApiKeys, has_private_key : BOOLEAN]
    /\ last = NoRequest
    /\ inflight = AllIdle

\* A request the dependency rejects
Unauthorized ==
    \E op \in {"get_or_create", "increment_run", "issue_token"}, h \in Headers :
        /\ ~verify_api_key(cfg.api_key, h)
        /\ last' = Rejected(op, h)
        /\ UNCHANGED <<sheet, clock, cfg, inflight>>

\* t1 and t2 are the readings of the handler's calls of tz_now_gmt7(), in
\* order: a call that is not made reads nothing new
ReadsClock(out, t1, t2) ==
    /\ out.ticks = 0 => t1 = clock
    /\ out.ticks < 2 => t2 = t1

\* The headers of the requests that pass the dependency, as it saw them
Admitted == {Examined(h) : h \in {x \in Headers : verify_api_key(cfg.api_key, x)}}

GetOrCreate(rows) ==
    \E k \in ReqKeys, h \in Admitted, t1 \in clock..MaxClock :
    \E t2 \in t1..MaxClock :
    \E out \in {license_get_or_create(sheet, k, t1, t2)} :
        /\ ReadsClock(out, t1, t2)
        /\ Len(out.ws) <= rows
        /\ sheet' = out.ws
        /\ clock' = t2
        /\ last' = Completed("get_or_create", k, h, out, sheet)
        /\ UNCHANGED <<cfg, inflight>>

IncrementRun(rows) ==
    \E k \in ReqKeys, h \in Admitted, t1 \in clock..MaxClock :
    \E t2 \in t1..MaxClock :
    \E out \in {license_increment_run(sheet, k, t1, t2)} :
        /\ ReadsClock(out, t1, t2)
        /\ Len(out.ws) <= rows
        /\ out.run_count <= MaxRun
        /\ sheet' = out.ws
        /\ clock' = t2
        /\ last' = Completed("increment_run", k, h, out, sheet)
        /\ UNCHANGED <<cfg, inflight>>

IssueToken(rows) ==
    \E k \in ReqKeys, h \in Admitted, t1 \in clock..MaxClock :
    \E t2 \in t1..MaxClock :
    \E t3 \in t2..MaxClock :
    \E out \in {license_issue_token(sheet, k, t1, t2, t3, cfg.has_private_key)} :
        /\ ReadsClock(out, t1, t2)
        /\ Len(out.ws) <= rows
        /\ sheet' = out.ws
        /\ clock' = t3
        /\ last' = Completed("issue_token", k, h, out, sheet)
        /\ UNCHANGED <<cfg, inflight>>

\* The requests served while the sheet holds at most `rows` rows
Requests(rows) ==
    Unauthorized \/ GetOrCreate(rows) \/ IncrementRun(rows) \/ IssueToken(rows)

Next == Requests(MaxRows)

Spec == Init /\ [][Next]_vars

\* The same service on a sheet of at most OneRecord rows
NextOneRecord == Requests(OneRecord)

SpecOneRecord == Init /\ [][NextOneRecord]_vars

-----------------------------------------------------------------------------
(* Notions the properties are stated with                                  *)

\* text of the timestamp d days after the one a text denotes
DaysAfter(text, d) == [text EXCEPT !.wall = @ + d * SecPerDay]

-----------------------------------------------------------------------------
(* C1                                                                      *)

\* C1: for a machine key that no stored row matches, get-or-create answers
\* created = true and run_count = 0, appends one row holding exactly the
\* returned record, and expires_at is exactly activated_at plus 7 days.
C1_UnseenKeyGetsExactDefaults ==
    [][(/\ last'.op = "get_or_create"
        /\ last'.status = 200
        /\ FindRowByKey(sheet, last'.key) = NoRow
        /\ StoredRowOf(sheet, last'.key) = NoRow)
       => /\ last'.created
          /\ last'.run_count = 0
          /\ sheet' = Append(sheet, Row(last'.key, last'.activated_at,
                                        last'.expires_at, <<"0">>))
          /\ last'.activated_at.kind = "iso"
          /\ last'.expires_at = DaysAfter(last'.activated_at, DEFAULT_DAYS)]_vars

-----------------------------------------------------------------------------
(* C2                                                                      *)

\* C2: for a machine key whose stored row has non-empty activated_at and
\* expires_at, get-or-create answers created = false with the stored
\* activated_at and expires_at, and leaves every cell of the sheet as it was.
C2_CompleteRecordIsOnlyRead ==
    [][LET k == last'.key
           r == StoredRowOf(sheet, k)
       IN  (/\ last'.op = "get_or_create"
            /\ last'.status = 200
            /\ r # NoRow
            /\ sheet[r].activated_at # Blank
            /\ sheet[r].expires_at # Blank)
           => /\ ~last'.created
              /\ last'.activated_at = sheet[r].activated_at
              /\ last'.expires_at = sheet[r].expires_at
              /\ sheet' = sheet]_vars

-----------------------------------------------------------------------------
(* C3                                                                      *)

\* The run count a sheet stores for k, 0 when k has no record
StoredRunCount(ws, k) ==
    IF StoredRowOf(ws, k) = NoRow THEN 0
    ELSE ParseRunCount(ws[StoredRowOf(ws, k)].run_count)

\* C3: an increment-run call leaves the stored run_count of its key at the
\* pre-call value (0 for an unseen key) plus exactly 1 and returns that value.
C3_IncrementAddsExactlyOne ==
    [][(last'.op = "increment_run" /\ last'.status = 200)
       => /\ StoredRowOf(sheet', last'.key) # NoRow
          /\ sheet'[StoredRowOf(sheet', last'.key)].run_count
                = PyStr(StoredRunCount(sheet, last'.key) + 1)
          /\ last'.run_count = StoredRunCount(sheet, last'.key) + 1]_vars

-----------------------------------------------------------------------------
(* C4                                                                      *)

\* C4: when a get-or-create call for a key that was not stored is followed at
\* once by a second get-or-create call for the same key, the second call
\* returns the activated_at, expires_at and run_count of the first and leaves
\* the sheet as the first call left it.
C4_GetOrCreateIdempotent ==
    [][(/\ last.op = "get_or_create" /\ last.status = 200
        /\ last.stored = NoRow
        /\ last'.op = "get_or_create" /\ last'.status = 200
        /\ last'.key = last.key)
       => /\ last'.activated_at = last.activated_at
          /\ last'.expires_at = last.expires_at
          /\ last'.run_count = last.run_count
          /\ sheet' = sheet]_vars

-----------------------------------------------------------------------------
(* build_offline_token on its own: every expiry text at every clock tick   *)

ExpPast == IsoText(0 - SecPerDay, 0)
ExpiryTexts == {Blank, JunkText, ExpNear, ExpFar, ExpNaive, ExpPast}

BuildToken ==
    \E k \in ReqKeys, rc \in 0..MaxRun, e \in ExpiryTexts, t \in clock..MaxClock :
    \E tok \in {build_offline_token(k, rc, e, t, cfg.has_private_key)} :
        /\ clock' = t
        /\ last' = [NoRequest EXCEPT !.op = "build_offline_token", !.key = k,
                                     !.run_count = rc, !.expires_at = e,
                                     !.status = IF tok.ok THEN 200 ELSE 500,
                                     !.token = tok.payload]
        /\ UNCHANGED <<sheet, cfg, inflight>>

InitToken ==
    /\ sheet = <<>>
    /\ clock = 0
    /\ cfg \in [api_key : ApiKeys, has_private_key : BOOLEAN]
    /\ last = NoRequest
    /\ inflight = AllIdle

SpecToken == InitToken /\ [][BuildToken]_vars

-----------------------------------------------------------------------------
(* C5                                                                      *)

\* The expiry build_offline_token works with: the parsed text, or now + TTL
\* when the text is empty or does not parse
EffectiveExpiry(text, now) ==
    IF parse_iso_maybe(text) = <<>> THEN PlusDays(now, TOKEN_TTL_DAYS)
    ELSE parse_iso_maybe(text)[1]

\* C5: the exp of a token is min(parsed stored expiry, now + TOKEN_TTL_DAYS)
\* as whole seconds, an empty or unparseable expiry counting as now +
\* TOKEN_TTL_DAYS; so exp exceeds neither the parsed expiry nor issued-at plus
\* the TTL.
C5_TokenExpiryIsClampedMin ==
    (last.op = "build_offline_token" /\ last.status = 200)
    => LET now == tz_now_gmt(clock)
           db == EffectiveExpiry(last.expires_at, now)
           ttl == now.inst + TOKEN_TTL_DAYS * SecPerDay * SubSec
           least == IF db.inst <= ttl THEN db.inst ELSE ttl
       IN  /\ last.token.exp = least \div SubSec
           /\ last.token.exp * SubSec <= db.inst
           /\ last.token.iat = now.inst \div SubSec
           /\ last.token.exp <= last.token.iat + TOKEN_TTL_DAYS * SecPerDay

\* a token whose record expires after now + TTL, issued inside a second
C5_Witness ==
    /\ last.op = "build_offline_token" /\ last.status = 200
    /\ last.expires_at = ExpFar
    /\ clock % SubSec # 0
    /\ last.token.exp = last.token.iat + TOKEN_TTL_DAYS * SecPerDay

-----------------------------------------------------------------------------
(* C6                                                                      *)

\* C6: once the record of a key has a non-empty activated_at, no request for
\* any key changes it, and every get-or-create or increment-run answer for
\* that key reports it with created = false.
C6_ActivatedAtImmutable ==
    [][\A k \in ReqKeys :
        LET r == StoredRowOf(sheet, k) IN
        (r # NoRow /\ sheet[r].activated_at # Blank)
        => /\ StoredRowOf(sheet', k) # NoRow
           /\ sheet'[StoredRowOf(sheet', k)].activated_at = sheet[r].activated_at
           /\ (/\ last'.op \in {"get_or_create", "increment_run"}
               /\ last'.status = 200
               /\ last'.key = k)
              => /\ last'.activated_at = sheet[r].activated_at
                 /\ ~last'.created]_vars

-----------------------------------------------------------------------------
(* C7                                                                      *)

\* int() raises on the text of the cell
Malformed(cell) == ~PyInt(cell).ok

\* C7: on a record whose run-count cell is not an integer no request fails
\* because of it and the count is taken as 0: get-or-create returns 0,
\* increment-run stores and returns 1, issue-token (which fails only for want
\* of a signing key) puts rc = 0 in the token.
C7_MalformedRunCountIsZero ==
    (last.found # <<>> /\ Malformed(last.found[1].run_count))
    => /\ last.op = "get_or_create" => last.status = 200 /\ last.run_count = 0
       /\ last.op = "increment_run"
            => /\ last.status = 200
               /\ last.run_count = 1
               /\ sheet[last.row].run_count = <<"1">>
       /\ last.op = "issue_token"
            => /\ last.status = (IF cfg.has_private_key THEN 200 ELSE 500)
               /\ last.status = 200 => last.token.rc = 0

\* increment-run has run on a record whose run-count cell held letters
C7_Witness ==
    /\ last.op = "increment_run"
    /\ last.found # <<>>
    /\ last.found[1].run_count = <<"x">>
    /\ sheet[last.row].run_count = <<"1">>

-----------------------------------------------------------------------------
(* C8                                                                      *)

HeaderFails == last.hdr = NoHeader \/ last.hdr[1] # cfg.api_key

\* C8: with an API key configured, a request whose header is absent or
\* different ends 401 having made no store read and no store write (the
\* sheet is as it was); with none configured no request ends 401.
C8_RejectedBeforeStoreAccess ==
    /\ [](/\ (cfg.api_key # "" /\ last.op # "none" /\ HeaderFails)
              => last.status = 401
          /\ last.status = 401
              => cfg.api_key # "" /\ HeaderFails /\ last.reads = 0 /\ last.writes = 0
          /\ cfg.api_key = "" => last.status # 401)
    /\ [][last'.status = 401 => sheet' = sheet]_vars

\* a request without the header has been turned away
C8_Witness ==
    /\ cfg.api_key = "k"
    /\ last.op = "increment_run"
    /\ last.hdr = NoHeader
    /\ last.status = 401

-----------------------------------------------------------------------------
(* C9                                                                      *)

\* C9: issue-token changes the run count of no row, and the row it creates
\* for an unseen key has run count 0.
C9_IssueTokenKeepsRunCounts ==
    [][(last'.op = "issue_token" /\ last'.status # 401)
       => /\ Len(sheet') >= Len(sheet)
          /\ \A i \in 1..Len(sheet) : sheet'[i].run_count = sheet[i].run_count
          /\ \A i \in (Len(sheet) + 1)..Len(sheet') : sheet'[i].run_count = <<"0">>]_vars

-----------------------------------------------------------------------------
(* C10                                                                     *)

\* C10: the sheet an issue-token call leaves is the sheet a get-or-create call
\* for the same key leaves from the same sheet at the same clock readings.
C10_IssueTokenStoresAsGetOrCreate ==
    [][(last'.op = "issue_token" /\ last'.status # 401)
       => \E t1 \in clock..clock' : \E t2 \in t1..clock' :
            sheet' = license_get_or_create(sheet, last'.key, t1, t2).ws]_vars

-----------------------------------------------------------------------------
(* Requests served concurrently: each store read (col_values, cell) and    *)
(* each store write (update) of a handler is one step of its worker, and   *)
(* the steps of the workers interleave.  The sheet starts empty, on a       *)
(* server that has a signing key and asks for no API key.                  *)

\* The locals of worker w after a step
Local(w) == inflight.workers[w]

\* A worker takes an admitted request (the dependency has let it through)
Accept(w) ==
    \E op \in {"get_or_create", "increment_run", "issue_token"}, k \in ReqKeys :
        /\ Local(w).pc = "idle"
        /\ Admitted # {}
        /\ inflight.accepted < MaxRequests
        /\ inflight' = [inflight EXCEPT
                            !.workers[w] = [Idle EXCEPT !.pc = "find", !.op = op,
                                                        !.key = k],
                            !.accepted = @ + 1]
        /\ UNCHANGED <<sheet, clock, cfg, last>>

\* row = _find_row_by_key(ws, req.machine_key)
Find(w) ==
    /\ Local(w).pc = "find"
    /\ LET row == FindRowByKey(sheet, Local(w).key)
       IN  inflight' = [inflight EXCEPT !.workers[w].row = row,
                                        !.workers[w].pc = IF row = NoRow THEN "keys"
                                                  ELSE "cellA"]
    /\ UNCHANGED <<sheet, clock, cfg, last>>

\* keys = ws.col_values(COL_KEY); row = len(keys) + 1
Keys(w) ==
    /\ Local(w).pc = "keys"
    /\ inflight' = [inflight EXCEPT !.workers[w].row = Len(ColKeys(sheet)) + 1,
                                    !.workers[w].pc = "create"]
    /\ UNCHANGED <<sheet, clock, cfg, last>>

\* the two tz_now_gmt7() calls and the _ensure_row of the creation path
CreateRow(w) ==
    \E t1 \in clock..MaxTick :
    \E t2 \in t1..MaxTick :
        LET activated_at == fmt_iso(tz_now_gmt7(t1))
            expires_at == fmt_iso(PlusDays(tz_now_gmt7(t2), DEFAULT_DAYS))
        IN  /\ Local(w).pc = "create"
            /\ Local(w).row <= MaxRows
            /\ sheet' = EnsureRow(sheet, Local(w).row, Local(w).key, activated_at,
                                  expires_at, 0)
            /\ clock' = t2
            /\ inflight' = [inflight EXCEPT !.workers[w].activated_at = activated_at,
                                            !.workers[w].expires_at = expires_at,
                                            !.workers[w].run_count = 0,
                                            !.workers[w].created = Local(w).op # "issue_token",
                                            !.workers[w].pc = "finish"]
            /\ UNCHANGED <<cfg, last>>

\* `ws.cell(row, col).value or fmt_iso(tz_now_gmt7() ...)` of increment-run and
\* issue-token: the clock is read when the cell is empty; get-or-create keeps
\* the empty text until its last step
OrDefault(op, value, t, days) ==
    IF value = Blank /\ op # "get_or_create"
    THEN fmt_iso(PlusDays(tz_now_gmt7(t), days)) ELSE value

\* the three ws.cell reads of the branch that found a row, one per step
ReadCell(w) ==
    \E t \in clock..MaxTick :
        LET me == Local(w)
            a == CellValue(sheet, me.row, COL_ACTIVATED)
            e == CellValue(sheet, me.row, COL_EXPIRES)
        IN  /\ me.pc \in {"cellA", "cellE", "cellR"}
            /\ me.row <= Len(sheet)
            /\ CASE me.pc = "cellA" ->
                      /\ (a # Blank \/ me.op = "get_or_create") => t = clock
                      /\ inflight' = [inflight EXCEPT
                            !.workers[w].activated_at = OrDefault(me.op, a, t, 0),
                            !.workers[w].pc = "cellE"]
                 [] me.pc = "cellE" ->
                      /\ (e # Blank \/ me.op = "get_or_create") => t = clock
                      /\ inflight' = [inflight EXCEPT
                            !.workers[w].expires_at = OrDefault(me.op, e, t, DEFAULT_DAYS),
                            !.workers[w].pc = "cellR"]
                 [] me.pc = "cellR" ->
                      /\ t = clock
                      /\ inflight' = [inflight EXCEPT
                            !.workers[w].run_count =
                                ParseRunCount(CellValue(sheet, me.row, COL_RUNCOUNT)),
                            !.workers[w].pc = "finish"]
            /\ clock' = t
            /\ UNCHANGED <<sheet, cfg, last>>

\* what the client receives
Response(me, status, a, e, rc, token) ==
    [NoRequest EXCEPT !.op = me.op, !.key = me.key, !.status = status,
                      !.created = me.created, !.activated_at = a,
                      !.expires_at = e, !.run_count = rc, !.row = me.row,
                      !.token = token]

\* the rest of the handler: the repair of get-or-create (lines 151-155), the
\* increment and its write (184-185), the token (217), and the response
Finish(w) ==
    \E t1 \in clock..MaxTick :
    \E t2 \in t1..MaxTick :
        LET me == Local(w)
            goc == me.op = "get_or_create"
            a == IF goc /\ me.activated_at = Blank THEN fmt_iso(tz_now_gmt7(t1))
                 ELSE me.activated_at
            e == IF goc /\ me.expires_at = Blank
                 THEN fmt_iso(PlusDays(tz_now_gmt7(t2), DEFAULT_DAYS))
                 ELSE me.expires_at
            changed == goc /\ (me.activated_at = Blank \/ me.expires_at = Blank)
            rc == IF me.op = "increment_run" THEN me.run_count + 1 ELSE me.run_count
            tok == IF me.op = "issue_token"
                   THEN build_offline_token(me.key, rc, e, t2, cfg.has_private_key)
                   ELSE [ok |-> TRUE, payload |-> NoToken]
        IN  /\ me.pc = "finish"
            /\ rc <= MaxRun
            /\ (goc /\ me.activated_at # Blank) => t1 = clock
            /\ (goc /\ me.expires_at # Blank) => t2 = t1
            /\ me.op = "increment_run" => t2 = clock
            /\ me.op = "issue_token" => t1 = clock
            /\ sheet' = IF changed \/ me.op = "increment_run"
                        THEN EnsureRow(sheet, me.row, me.key, a, e, rc)
                        ELSE sheet
            /\ clock' = t2
            /\ last' = Response(me, IF tok.ok THEN 200 ELSE 500, a, e, rc, tok.payload)
            /\ inflight' = [inflight EXCEPT !.workers[w] = Idle]
            /\ UNCHANGED cfg

InitInterleaved ==
    /\ sheet = <<>>
    /\ clock = 0
    /\ cfg = [api_key |-> "", has_private_key |-> TRUE]
    /\ last = NoRequest
    /\ inflight = AllIdle

NextInterleaved ==
    \E w \in Workers :
        Accept(w) \/ Find(w) \/ Keys(w) \/ CreateRow(w) \/ ReadCell(w) \/ Finish(w)

SpecInterleaved == InitInterleaved /\ [][NextInterleaved]_vars

-----------------------------------------------------------------------------
(* C11                                                                     *)

\* a key the lookup finds again: not empty, no surrounding blanks
PlainKey(k) == k # <<>> /\ Strip(k) = k

\* C11: in every interleaving of the store reads and writes of concurrent
\* requests, no step lowers the stored run_count of a row that keeps its
\* (plain) machine key.
C11_RunCountNeverDecreases ==
    [][\A i \in 1..Len(sheet) :
        (PlainKey(sheet[i].key) /\ sheet'[i].key = sheet[i].key)
        => ParseRunCount(sheet'[i].run_count) >= ParseRunCount(sheet[i].run_count)]_vars

-----------------------------------------------------------------------------
(* C14                                                                     *)

\* C14: no state, the states between the two writes of the request included,
\* shows the row that an increment-run call has created for an unseen key
\* with run_count 0.
C14_FirstRecordedCountIsOne ==
    \A w \in Workers :
        (/\ Local(w).op = "increment_run"
         /\ Local(w).created
         /\ Local(w).row <= Len(sheet)
         /\ sheet[Local(w).row].key = Local(w).key)
        => sheet[Local(w).row].run_count # <<"0">>

-----------------------------------------------------------------------------
(* The service on a worksheet that starts empty: every row is one a        *)
(* request has written                                                     *)

InitEmptyStore ==
    /\ sheet = <<>>
    /\ clock = 0
    /\ cfg \in [api_key : ApiKeys, has_private_key : BOOLEAN]
    /\ last = NoRequest
    /\ inflight = AllIdle

SpecEmptyStore == InitEmptyStore /\ [][Next]_vars

\* the same, on a sheet of at most OneRecord rows
SpecEmptyOneRecord == InitEmptyStore /\ [][NextOneRecord]_vars

-----------------------------------------------------------------------------
(* C12                                                                     *)

\* C12: a row that holds machine key k holds k at the same index after every
\* request, whatever key the request is for: no row is removed and no request
\* writes another key over it.
C12_RowIndexStable ==
    [][\A i \in 1..Len(sheet) :
        /\ i <= Len(sheet')
        /\ sheet'[i].key = sheet[i].key]_vars

-----------------------------------------------------------------------------
(* C13                                                                     *)

\* C13: starting from an empty sheet, no two rows ever hold the same machine
\* key.
C13_KeysUniquePerRecord ==
    \A i, j \in 1..Len(sheet) : i # j => sheet[i].key # sheet[j].key

-----------------------------------------------------------------------------
(* C15                                                                     *)

\* whole days between the activated_at and the expires_at of a record
WindowDays(r) == (r.expires_at.wall - r.activated_at.wall) \div SecPerDay

\* the windows the three handlers give key k when each creates its record
\* from sheet ws at clock reading t
CreationWindows(ws, k, t) ==
    { WindowDays(license_get_or_create(ws, k, t, t)),
      WindowDays(license_increment_run(ws, k, t, t)),
      WindowDays(license_issue_token(ws, k, t, t, t, cfg.has_private_key)) }

\* the request that completes in this step has taken the creation path
CreatesRecord == last'.status \in {200, 500} /\ last'.found = <<>>

\* C15 as stated: the creation paths do not agree on the default window, one
\* gives 7 days and another 14.
C15_DefaultWindowDiffersByPath ==
    [][CreatesRecord
       => CreationWindows(sheet, last'.key, clock') = {DEFAULT_DAYS, TOKEN_TTL_DAYS}]_vars

\* C15 amended: every creation path (get-or-create, increment-run,
\* issue-token) gives the new record the same window of 7 days; 14 days is
\* only the lifetime of a token.
C15_DefaultWindowIsSevenDays ==
    [][CreatesRecord
       => /\ WindowDays(sheet'[last'.row]) = DEFAULT_DAYS
          /\ CreationWindows(sheet, last'.key, clock') = {DEFAULT_DAYS}]_vars

\* issue-token has created a record, and its window is the 7 days
C15_Witness ==
    /\ last.op = "issue_token"
    /\ last.status = 200
    /\ last.found = <<>>
    /\ sheet[last.row].key = last.key
    /\ WindowDays(sheet[last.row]) = DEFAULT_DAYS

-----------------------------------------------------------------------------
(* C16                                                                     *)

\* the first row of the whole key column whose trimmed cell is the trimmed
\* key, NoRow when there is none
TrimmedMatch(ws, k) ==
    LET hits == {i \in 1..Len(ws) : Strip(ws[i].key) = Strip(k)}
    IN  IF hits = {} THEN NoRow ELSE CHOOSE i \in hits : \A j \in hits : i <= j

\* C16: the lookup every handler starts with returns the index of the first
\* row whose trimmed key cell equals the trimmed requested key, blank and
\* padded cells included, and NoRow when no row matches.
C16_FindByKeyIsTrimmedMatch ==
    [][last'.status \in {200, 500}
       => /\ FindRowByKey(sheet, last'.key) = TrimmedMatch(sheet, last'.key)
          /\ last'.found = <<>> <=> TrimmedMatch(sheet, last'.key) = NoRow]_vars

-----------------------------------------------------------------------------
(* C17                                                                     *)

\* the row indices whose cells a step changes or adds
ChangedRows == {i \in 1..Len(sheet') : i > Len(sheet) \/ sheet'[i] # sheet[i]}

\* C17: a request for machine key k changes at most one row index, the row
\* it writes holds the four cells of its answer, and every row holding a
\* different non-blank key is as it was.
C17_OneRowWrittenOthersKept ==
    [][last'.status \in {200, 500}
       => /\ Len(sheet') >= Len(sheet)
          /\ Cardinality(ChangedRows) <= 1
          /\ \A i \in ChangedRows :
                sheet'[i] = Row(last'.key, last'.activated_at, last'.expires_at,
                                PyStr(last'.run_count))
          /\ \A i \in 1..Len(sheet) :
                (sheet[i].key # <<>> /\ sheet[i].key # last'.key)
                => sheet'[i] = sheet[i]]_vars

-----------------------------------------------------------------------------
(* C18                                                                     *)

\* the cell is the decimal text of an integer >= 0
CountText(cell) == PyInt(cell).ok /\ PyInt(cell).v >= 0 /\ cell = PyStr(PyInt(cell).v)

\* C18: starting from an empty sheet, in every interleaving every row is
\* complete (non-empty activated_at and expires_at, a run-count cell that is
\* the decimal text of an integer >= 0), and a row a step writes holds the
\* key of the request that wrote it.
C18_WrittenRowsComplete ==
    /\ [](\A i \in 1..Len(sheet) :
            /\ sheet[i].activated_at.kind = "iso"
            /\ sheet[i].expires_at.kind = "iso"
            /\ CountText(sheet[i].run_count))
    /\ [][\A i \in ChangedRows :
            \E w \in Workers :
                /\ Local(w).pc \in {"create", "finish"}
                /\ inflight'.workers[w] # Local(w)
                /\ Local(w).row = i
                /\ sheet'[i].key = Local(w).key]_vars

\* two requests have each written a row, the second is between its writes
C18_Witness ==
    /\ Len(sheet) = 2
    /\ \E w \in Workers :
        /\ Local(w).op = "increment_run"
        /\ Local(w).pc = "finish"
        /\ Local(w).row = 2
        /\ sheet[2].key = Local(w).key
        /\ sheet[2].activated_at # Blank

-----------------------------------------------------------------------------
(* C19                                                                     *)

\* C19: issue-token for an unseen key writes the row of the key (defaults,
\* run_count 0) before it loads the signing key: with no key material the
\* call ends 500 without a token, and the row it wrote stays in the sheet.
C19_RowPersistedBeforeKeyError ==
    [][(last'.op = "issue_token" /\ last'.status # 401 /\ last'.found = <<>>)
       => /\ last'.status = 500 <=> ~cfg.has_private_key
          /\ last'.status = 500 => last'.token = NoToken
          /\ last'.writes = 1
          /\ last'.row <= Len(sheet')
          /\ sheet'[last'.row] = Row(last'.key, last'.activated_at,
                                     last'.expires_at, <<"0">>)
          /\ last'.activated_at.kind = "iso"
          /\ last'.expires_at.kind = "iso"]_vars

\* issue-token has failed for want of a signing key and the row is there
C19_Witness ==
    /\ ~cfg.has_private_key
    /\ last.op = "issue_token"
    /\ last.status = 500
    /\ last.found = <<>>
    /\ last.token = NoToken
    /\ sheet[last.row] = Row(last.key, last.activated_at, last.expires_at, <<"0">>)

====
